---- MODULE Spec2Model ----
(***************************************************************************)
(* A model of fastclient.FastClient (src/fastclient/__init__.py): the      *)
(* dispatcher (on, request, run, __setitem__, __getitem__), the controller *)
(* processes, the ticket generator and the request pools they drive.       *)
(*                                                                         *)
(* Time is discrete.  One tick is the unit in which 1/rate is Period       *)
(* ticks.  The pending queue (a multiprocessing JoinableQueue) is modelled *)
(* as an atomic FIFO with its unfinished-task counter.  RequestPool is     *)
(* imported from fastclient.pools, which is not part of the sources: its   *)
(* three methods are modelled from the specification's pool boundary.      *)
(* The model follows the dispatcher through its first complete run().      *)
(***************************************************************************)
EXTENDS Integers, Sequences, FiniteSets, TLC

(* ------------------------------ bounds -------------------------------- *)
\* at most this many items are staged with request()
MaxItems == 2
\* at most this many callbacks are registered with on()
MaxCallbacks == 2
\* the elapsed-time observer stops counting at this many ticks
MaxTime == 3
\* largest outstanding-task count drawn when pool selection is followed alone
MaxCount == 4
\* at most this many notifications reach the rps counter followed alone
MaxNotes == 2
\* the rps counter followed alone is followed for this many ticks
MaxNow == 106
\* at most this many pools are passed when the partition is followed alone
MaxPools == 3

(* ------------------------- program parameters ------------------------- *)
\* 1/rate, in ticks (the constructor's rate)
Period == 1
\* the constructor's max_connections (max_connections or rate)
MaxConnections == 1
\* the ticket generator is followed for this many broadcasts: one for every
\* item that can be staged, so that no staged item ever lacks a ticket
MaxRounds == MaxItems

None == "None"
Free == 0
\* the party id of the dispatcher's caller; controllers are 1, 2, ...
Main == -1
EventKinds == {"RESPONSE", "ERROR"}
ResultTypes == {"Response", "ErrorResult"}
NoResult == [item |-> 0, type |-> None]
NoAccess == [party |-> 0, op |-> None, held |-> FALSE]
NoCall == [op |-> None, result |-> None]
\* the constructor calls followed: the pools by their id_ (None: ungrouped),
\* use_store and use_rps
Setups ==
  { [pools |-> <<None>>,       store |-> FALSE, rps |-> TRUE],
    [pools |-> <<None, None>>, store |-> TRUE,  rps |-> FALSE],
    [pools |-> <<"a", "a">>,   store |-> TRUE,  rps |-> FALSE] }

VARIABLES
  pool_ids,            \* self._pools, each pool by its id_
  use_store, use_rps,  \* self._use_store, self._use_rps
  store,               \* self._store: [alloc, val]; alloc FALSE is Python's None,
                       \* val is 1 once the key is set
  store_lock,          \* self._store_lock: [alloc, holder]
  callbacks,           \* self._callbacks: event kind -> list of callbacks
  callback_registered, \* self._callback_registered
  requests,            \* self._requests: the items waiting in the queue
  unfinished,          \* the JoinableQueue's count of items not yet task_done
  closed,              \* whether self._requests.close() was called
  staged,              \* how many items request() staged (items are 1..staged)
  main_pc,             \* where the caller of the dispatcher is
  last_call,           \* the dispatcher call this step made and how it ended
  controllers,         \* run(): controller -> the tuple of pools it is given
  ticket_recv,         \* run(): controller -> index of its ticket connection
  pc,                  \* controller -> its position in _controller
  counter,             \* controller -> its local counter
  ready,               \* controller -> the connections wait_for_connection gave
  result,              \* controller -> the result it is dispatching
  cb_idx,              \* controller -> the next callback of the batch
  tickets,             \* ticket connection -> tickets sent and not yet received
  remaining,           \* pool -> the items it accepted and has not completed
  feed,                \* pool -> the outcomes waiting on its connection
  gen_pc,              \* the ticket generator process: idle, run, terminated
  since_last,          \* time() - last_tickets, counted up to Period + 1
  rounds,              \* broadcasts begun
  rps_pc,              \* the rps counter process: idle, run, terminated
  rps_pending,         \* notifications sent on rps_send and not yet received
  now,                 \* _count_rps: time() - start, in ticks of 1/Second s
  count,               \* _count_rps: count
  list1, list9,        \* _count_rps: list1 and list9, the times kept
  rps, rps1, rps10,    \* the values published: rps as [count, over] for
                       \* count / (time_ - start)
  stamps,              \* every time_ that _count_rps took, in order
  \* observers
  sent,                \* ticket connection -> tickets ever sent on it
  taken,               \* controller -> tickets it ever received
  elapsed,             \* ticks since the generator started, up to MaxTime
  handed,              \* item -> the <<controller, pool, time>> of the _request
                       \* call made with it (the time is the elapsed one)
  dropped,             \* items whose _request raised
  batches,             \* item -> how many callback batches were begun for it
  invoked,             \* item -> the callbacks invoked for it, in order, each
                       \* with the event it was registered for
  outcome,             \* item -> the type of the outcome its pool produced
  last_access,         \* the store access this step made: who, how, lock held
  counts, chosen       \* pool selection alone: the counts and the pool chosen

cfg_vars   == <<pool_ids, use_store, use_rps>>
store_vars == <<store, store_lock>>
reg_vars   == <<callbacks, callback_registered>>
queue_vars == <<requests, unfinished, closed, staged>>
main_vars  == <<main_pc>>
io_vars    == <<last_call, last_access>>
ctrl_vars  == <<controllers, ticket_recv, pc, counter, ready, result, cb_idx>>
pool_vars  == <<remaining, feed>>
gen_vars   == <<gen_pc, since_last, rounds, tickets, sent, taken, elapsed>>
win_vars   == <<now, count, list1, list9, rps, rps1, rps10, stamps>>
rps_vars   == <<rps_pc, rps_pending, win_vars>>
obs_vars   == <<handed, dropped, batches, invoked, outcome>>
sel_vars   == <<counts, chosen>>
vars == <<cfg_vars, store_vars, reg_vars, queue_vars, main_vars, io_vars,
          ctrl_vars,
          pool_vars, gen_vars, rps_vars, obs_vars, sel_vars>>

Items == 1..MaxItems
Pools == 1..Len(pool_ids)
Ctrls == 1..Len(controllers)

(* ------------------------------ helpers ------------------------------- *)
\* a faulty acquire, which does not wait for the lock to be free
AcquireAtOnce(lock) == TRUE

\* store_lock.acquire() returns only when nobody holds the lock
CanAcquire(lock) == lock.holder = Free

Indices(seq) == [i \in 1..Len(seq) |-> i]

\* run(): pools = [pool for pool in self._pools if pool.id_ is None]
SoloPools(ids) == SelectSeq(Indices(ids), LAMBDA i : ids[i] = None)

\* run(): the keys of poolgroups, in insertion order (first occurrence)
GroupIds(ids) ==
  LET first == SelectSeq(Indices(ids),
                 LAMBDA i : ids[i] # None /\ \A j \in 1..(i-1) : ids[j] # ids[i])
  IN [k \in 1..Len(first) |-> ids[first[k]]]

\* run(): poolgroups[id], the pools of one id in declaration order
GroupPools(ids, g) == SelectSeq(Indices(ids), LAMBDA i : ids[i] = g)

\* run(): the pools argument of every controller, solo pools first
Partition(ids) ==
  LET solo == SoloPools(ids)
      gids == GroupIds(ids)
  IN [j \in 1..Len(solo) |-> <<solo[j]>>] \o
     [k \in 1..Len(gids) |-> GroupPools(ids, gids[k])]

\* a faulty hand-out, in which every controller gets the same connection
SameRecv(n) == [j \in 1..n |-> n]

\* run(): ticket_recvs.pop() hands out the connections last first
TicketRecvs(n) == [j \in 1..n |-> n + 1 - j]

\* RequestPool._get_remaining_tasks
GetRemainingTasks(p) == Cardinality(remaining[p])

\* min(pools, key): Python keeps the first element whose key is smallest
RECURSIVE MinByKey(_, _, _)
MinByKey(ps, key, best) ==
  IF ps = <<>> THEN best
  ELSE MinByKey(Tail(ps), key,
                IF key[Head(ps)] < key[best] THEN Head(ps) ELSE best)

\* a faulty choice, which keeps the last of the pools with the smallest key
LastLeastBusy(ps, key) ==
  ps[CHOOSE k \in DOMAIN ps :
       /\ \A j \in DOMAIN ps : key[ps[k]] <= key[ps[j]]
       /\ \A j \in DOMAIN ps : j > k => key[ps[k]] < key[ps[j]]]

\* _controller: pool = min(pools, key=lambda p: p._get_remaining_tasks())
LeastBusy(ps, key) == MinByKey(Tail(ps), key, Head(ps))

\* a faulty routing, which gives every outcome to the RESPONSE callbacks
AlwaysResponse(type) == "RESPONSE"

\* _controller: type(result) == Response selects the RESPONSE callbacks
EventOf(type) == IF type = "Response" THEN "RESPONSE" ELSE "ERROR"

(* ------------------------------- Init --------------------------------- *)
\* FastClient.__init__: the arguments kept
Configured(s) ==
  /\ pool_ids = s.pools
  /\ use_store = s.store
  /\ use_rps = s.rps

\* FastClient.__init__: everything else, and the processes not yet started
Fresh ==
  /\ store = [alloc |-> use_store, val |-> 0]
  /\ store_lock = [alloc |-> use_store, holder |-> Free]
  /\ callbacks = [e \in EventKinds |-> <<>>]
  /\ callback_registered = FALSE
  /\ requests = <<>>
  /\ unfinished = 0
  /\ closed = FALSE
  /\ staged = 0
  /\ main_pc = "config"
  /\ last_call = NoCall
  /\ controllers = <<>>
  /\ ticket_recv = <<>>
  /\ pc = <<>>
  /\ counter = <<>>
  /\ ready = <<>>
  /\ result = <<>>
  /\ cb_idx = <<>>
  /\ tickets = <<>>
  /\ remaining = [p \in 1..Len(pool_ids) |-> {}]
  /\ feed = [p \in 1..Len(pool_ids) |-> <<>>]
  /\ gen_pc = "idle"
  /\ since_last = Period + 1
  /\ rounds = 0
  /\ rps_pc = "idle"
  /\ rps_pending = 0
  /\ now = 0
  /\ count = 0
  /\ list1 = <<>>
  /\ list9 = <<>>
  /\ rps = [count |-> 0, over |-> 0]
  /\ rps1 = 0
  /\ rps10 = 0
  /\ stamps = <<>>
  /\ sent = <<>>
  /\ taken = <<>>
  /\ elapsed = 0
  /\ handed = [i \in Items |-> <<>>]
  /\ dropped = {}
  /\ batches = [i \in Items |-> 0]
  /\ invoked = [i \in Items |-> <<>>]
  /\ outcome = [i \in Items |-> None]
  /\ last_access = NoAccess

\* FastClient.__init__
Constructed ==
  /\ \E s \in Setups : Configured(s)
  /\ Fresh

Init ==
  /\ Constructed
  /\ counts = <<>>
  /\ chosen = 0

(* --------------------------- the dispatcher --------------------------- *)
Registered == Len(callbacks["RESPONSE"]) + Len(callbacks["ERROR"])

\* FastClient.on: a callback is named by its place among those of its event
On(e) ==
  /\ main_pc = "config"
  /\ Registered < MaxCallbacks
  /\ callbacks' = [callbacks EXCEPT ![e] = Append(@, Len(@) + 1)]
  /\ callback_registered' = TRUE
  /\ last_call' = NoCall
  /\ last_access' = NoAccess
  /\ UNCHANGED <<cfg_vars, store_vars, queue_vars, main_vars, ctrl_vars,
                 pool_vars, gen_vars, rps_vars, obs_vars, sel_vars>>

\* FastClient.request
Request ==
  /\ main_pc = "config"
  /\ ~closed
  /\ staged < MaxItems
  /\ staged' = staged + 1
  /\ requests' = Append(requests, staged + 1)
  /\ unfinished' = unfinished + 1
  /\ last_call' = NoCall
  /\ last_access' = NoAccess
  /\ UNCHANGED <<closed, cfg_vars, store_vars, reg_vars, main_vars, ctrl_vars,
                 pool_vars, gen_vars, rps_vars, obs_vars, sel_vars>>

\* the caller uses the store before run() and after it returned
CallerFree == main_pc \in {"config", "done"}

\* FastClient.__setitem__ with the store disabled
SetItemUnsupported ==
  /\ CallerFree
  /\ ~use_store
  /\ last_call' = [op |-> "set", result |-> "StoreNotSupportedError"]
  /\ last_access' = NoAccess
  /\ UNCHANGED <<main_pc, cfg_vars, store_vars, reg_vars, queue_vars, ctrl_vars,
                 pool_vars, gen_vars, rps_vars, obs_vars, sel_vars>>

\* FastClient.__setitem__: acquire, write, release
SetItem ==
  /\ CallerFree
  /\ use_store
  /\ CanAcquire(store_lock)
  /\ LET locked == [store_lock EXCEPT !.holder = Main]
     IN /\ store' = [store EXCEPT !.val = 1]
        /\ last_access' = [party |-> Main, op |-> "set",
                           held |-> locked.holder = Main]
        /\ store_lock' = [locked EXCEPT !.holder = Free]
  /\ last_call' = [op |-> "set", result |-> "ok"]
  /\ UNCHANGED <<main_pc, cfg_vars, reg_vars, queue_vars, ctrl_vars,
                 pool_vars, gen_vars, rps_vars, obs_vars, sel_vars>>

\* a faulty __getitem__, which reads the store without testing use_store
GetItemUnchecked ==
  /\ CallerFree
  /\ ~use_store
  /\ last_access' = [party |-> Main, op |-> "get", held |-> FALSE]
  /\ last_call' = [op |-> "get", result |-> "TypeError"]
  /\ UNCHANGED <<main_pc, cfg_vars, store_vars, reg_vars, queue_vars, ctrl_vars,
                 pool_vars, gen_vars, rps_vars, obs_vars, sel_vars>>

\* FastClient.__getitem__ with the store disabled
GetItemUnsupported ==
  /\ CallerFree
  /\ ~use_store
  /\ last_call' = [op |-> "get", result |-> "StoreNotSupportedError"]
  /\ last_access' = NoAccess
  /\ UNCHANGED <<main_pc, cfg_vars, store_vars, reg_vars, queue_vars, ctrl_vars,
                 pool_vars, gen_vars, rps_vars, obs_vars, sel_vars>>

\* FastClient.__getitem__: reads self._store[key], acquiring nothing
GetItem ==
  /\ CallerFree
  /\ use_store
  /\ last_access' = [party |-> Main, op |-> "get",
                     held |-> store_lock.holder = Main]
  /\ last_call' = [op |-> "get",
                   result |-> IF store.val = 0 THEN "KeyError" ELSE "ok"]
  /\ UNCHANGED <<main_pc, store, store_lock, cfg_vars, reg_vars, queue_vars,
                 ctrl_vars, pool_vars, gen_vars, rps_vars, obs_vars, sel_vars>>

\* a faulty run, which closes the queue before it finds no callback registered
RunNoListenersClosing ==
  /\ main_pc = "config"
  /\ ~callback_registered
  /\ closed' = TRUE
  /\ last_call' = [op |-> "run", result |-> "NoListenersError"]
  /\ last_access' = NoAccess
  /\ UNCHANGED <<requests, unfinished, staged, main_pc, cfg_vars, store_vars,
                 reg_vars, ctrl_vars, pool_vars, gen_vars, rps_vars, obs_vars,
                 sel_vars>>

\* FastClient.run without a registered callback
RunNoListeners ==
  /\ main_pc = "config"
  /\ ~callback_registered
  /\ last_call' = [op |-> "run", result |-> "NoListenersError"]
  /\ last_access' = NoAccess
  /\ UNCHANGED <<main_pc, cfg_vars, store_vars, reg_vars, queue_vars, ctrl_vars,
                 pool_vars, gen_vars, rps_vars, obs_vars, sel_vars>>

\* FastClient.run up to self._requests.close(): the pools are partitioned, the
\* rps counter, the controllers and the ticket generator are started
RunStart ==
  /\ main_pc = "config"
  /\ callback_registered
  /\ LET parts == Partition(pool_ids)
         n == Len(parts)
     IN /\ controllers' = parts
        /\ ticket_recv' = TicketRecvs(n)
        /\ pc' = [j \in 1..n |-> "loop"]
        /\ counter' = [j \in 1..n |-> 0]
        /\ ready' = [j \in 1..n |-> <<>>]
        /\ result' = [j \in 1..n |-> NoResult]
        /\ cb_idx' = [j \in 1..n |-> 0]
        /\ tickets' = [k \in 1..n |-> 0]
        /\ sent' = [k \in 1..n |-> 0]
        /\ taken' = [j \in 1..n |-> 0]
  /\ rps_pc' = IF use_rps THEN "run" ELSE "idle"
  /\ gen_pc' = "run"
  /\ closed' = TRUE
  /\ main_pc' = "join_queue"
  /\ last_call' = [op |-> "run", result |-> None]
  /\ last_access' = NoAccess
  /\ UNCHANGED <<requests, unfinished, staged, since_last, rounds,
                 elapsed, rps_pending, win_vars, cfg_vars, store_vars, reg_vars,
                 pool_vars, obs_vars, sel_vars>>

\* FastClient.run: self._requests.join() returns, the generator is terminated
RunJoinQueue ==
  /\ main_pc = "join_queue"
  /\ unfinished = 0
  /\ gen_pc' = "terminated"
  /\ main_pc' = "join_ctrl"
  /\ last_call' = NoCall
  /\ last_access' = NoAccess
  /\ UNCHANGED <<since_last, rounds, tickets, sent, taken, elapsed,
                 cfg_vars, store_vars, reg_vars, queue_vars, ctrl_vars,
                 pool_vars, rps_vars, obs_vars, sel_vars>>

\* FastClient.run: every controller is joined, the rps counter is terminated
RunJoinControllers ==
  /\ main_pc = "join_ctrl"
  /\ \A c \in Ctrls : pc[c] \in {"exited", "crashed"}
  /\ rps_pc' = IF use_rps THEN "terminated" ELSE rps_pc
  /\ main_pc' = "done"
  /\ last_call' = [op |-> "run", result |-> "returned"]
  /\ last_access' = NoAccess
  /\ UNCHANGED <<rps_pending, win_vars, cfg_vars, store_vars, reg_vars,
                 queue_vars, ctrl_vars, pool_vars, gen_vars, obs_vars,
                 sel_vars>>

(* ------------------------------ the pools ----------------------------- *)
\* the controller that was given pool p
OwnerOf(p) == CHOOSE c \in Ctrls : \E k \in 1..Len(controllers[c]) : controllers[c][k] = p

\* RequestPool._request: the pool takes the item unless its connection budget
\* (the max_connections given to _setup) is exhausted
PoolAccepts(p) == GetRemainingTasks(p) < MaxConnections

\* a pool finishes one of its items, in any order, with either outcome, and
\* puts the outcome on its connection
PoolComplete(p) ==
  /\ remaining[p] # {}
  /\ pc[OwnerOf(p)] \notin {"exited", "crashed"}
  /\ \E i \in remaining[p], t \in ResultTypes :
       /\ remaining' = [remaining EXCEPT ![p] = @ \ {i}]
       /\ feed' = [feed EXCEPT ![p] = Append(@, [item |-> i, type |-> t])]
       /\ outcome' = [outcome EXCEPT ![i] = t]
  /\ last_call' = NoCall
  /\ last_access' = NoAccess
  /\ UNCHANGED <<handed, dropped, batches, invoked, cfg_vars, store_vars,
                 reg_vars, queue_vars, main_vars, ctrl_vars, gen_vars, rps_vars,
                 sel_vars>>

(* --------------------------- the controllers -------------------------- *)
\* _controller: while True: if counter == 0 and requests.empty(): break
CtrlLoop(c) ==
  /\ pc[c] = "loop"
  /\ pc' = [pc EXCEPT ![c] = IF counter[c] = 0 /\ requests = <<>>
                             THEN "exited" ELSE "ticket"]
  /\ last_call' = NoCall
  /\ last_access' = NoAccess
  /\ UNCHANGED <<controllers, ticket_recv, counter, ready, result, cb_idx,
                 cfg_vars, store_vars, reg_vars, queue_vars, main_vars,
                 pool_vars, gen_vars, rps_vars, obs_vars, sel_vars>>

\* _controller: result = connection.recv(); counter -= 1; rps_send.send(None);
\* the context is built.  todo is the ready connections, the first one read
\* now; cnt is the counter before
Receive(c, todo, cnt) ==
  LET p == Head(todo)
      r == Head(feed[p])
  IN /\ feed' = [feed EXCEPT ![p] = Tail(@)]
     /\ result' = [result EXCEPT ![c] = r]
     /\ batches' = [batches EXCEPT ![r.item] = @ + 1]
     /\ ready' = [ready EXCEPT ![c] = Tail(todo)]
     /\ counter' = [counter EXCEPT ![c] = cnt - 1]
     /\ rps_pending' = IF use_rps THEN rps_pending + 1 ELSE rps_pending
     /\ cb_idx' = [cb_idx EXCEPT ![c] = 1]
     /\ pc' = [pc EXCEPT ![c] = IF use_store THEN "acquire" ELSE "callbacks"]

\* _controller: wait_for_connection(connections, timeout=0) gives the
\* connections that hold an outcome, in the order of the pools; the first of
\* them is read at once.  With none ready the iteration is over
Reap(c, cnt) ==
  LET got == SelectSeq(controllers[c], LAMBDA p : feed[p] # <<>>)
  IN IF got = <<>>
     THEN /\ pc' = [pc EXCEPT ![c] = "loop"]
          /\ counter' = [counter EXCEPT ![c] = cnt]
          /\ UNCHANGED <<feed, result, batches, ready, rps_pending, cb_idx>>
     ELSE Receive(c, got, cnt)

\* _controller: tickets.poll() is false; the completions are reaped
CtrlNoTicket(c) ==
  /\ pc[c] = "ticket"
  /\ tickets[ticket_recv[c]] = 0
  /\ Reap(c, counter[c])
  /\ last_call' = NoCall
  /\ last_access' = NoAccess
  /\ UNCHANGED <<controllers, ticket_recv, remaining, rps_pc, win_vars,
                 handed, dropped, invoked, outcome, cfg_vars, store_vars,
                 reg_vars, queue_vars, main_vars, gen_vars, sel_vars>>

\* a faulty receive, which leaves the ticket in the connection (poll alone)
AfterPoll(n) == n

\* tickets.recv(): the tickets waiting in the connection once one is received
AfterRecv(n) == n - 1

\* a faulty step, in which requests.get() blocks on the empty queue with the
\* ticket received
CtrlEmptyBlocking(c) ==
  /\ pc[c] = "ticket"
  /\ tickets[ticket_recv[c]] > 0
  /\ requests = <<>>
  /\ tickets' = [tickets EXCEPT ![ticket_recv[c]] = @ - 1]
  /\ taken' = [taken EXCEPT ![c] = @ + 1]
  /\ pc' = [pc EXCEPT ![c] = "blocked"]
  /\ last_call' = NoCall
  /\ last_access' = NoAccess
  /\ UNCHANGED <<controllers, ticket_recv, counter, ready, result, cb_idx,
                 gen_pc, since_last, rounds, sent, elapsed,
                 cfg_vars, store_vars, reg_vars, queue_vars, main_vars,
                 pool_vars, rps_vars, obs_vars, sel_vars>>

\* _controller: a ticket is received and requests.get(block=False) raises
\* Empty, which ends this iteration of the loop before the completions
CtrlEmpty(c) ==
  /\ pc[c] = "ticket"
  /\ tickets[ticket_recv[c]] > 0
  /\ requests = <<>>
  /\ tickets' = [tickets EXCEPT ![ticket_recv[c]] = AfterRecv(@)]
  /\ taken' = [taken EXCEPT ![c] = @ + 1]
  /\ pc' = [pc EXCEPT ![c] = "loop"]
  /\ last_call' = NoCall
  /\ last_access' = NoAccess
  /\ UNCHANGED <<controllers, ticket_recv, counter, ready, result, cb_idx,
                 gen_pc, since_last, rounds, sent, elapsed,
                 cfg_vars, store_vars, reg_vars, queue_vars, main_vars,
                 pool_vars, rps_vars, obs_vars, sel_vars>>

\* a faulty get, which leaves the item it returns in the queue
AfterPeek(q) == q

\* requests.get(block=False): the queue once its first item is taken
AfterGet(q) == Tail(q)

\* the pool the controller chooses for its next request
ChosenPool(c) ==
  LeastBusy(controllers[c], [p \in Pools |-> GetRemainingTasks(p)])

\* _controller: a ticket is received, the least busy pool takes the item that
\* requests.get returns, counter += 1, requests.task_done(); the completions
\* are reaped
CtrlSubmit(c) ==
  /\ pc[c] = "ticket"
  /\ tickets[ticket_recv[c]] > 0
  /\ requests # <<>>
  /\ LET p == ChosenPool(c)
         i == Head(requests)
     IN /\ PoolAccepts(p)
        /\ remaining' = [remaining EXCEPT ![p] = @ \cup {i}]
        /\ handed' = [handed EXCEPT ![i] = Append(@, <<c, p, elapsed>>)]
  /\ requests' = AfterGet(requests)
  /\ unfinished' = unfinished - 1
  /\ tickets' = [tickets EXCEPT ![ticket_recv[c]] = AfterRecv(@)]
  /\ taken' = [taken EXCEPT ![c] = @ + 1]
  /\ Reap(c, counter[c] + 1)
  /\ last_call' = NoCall
  /\ last_access' = NoAccess
  /\ UNCHANGED <<controllers, ticket_recv, rps_pc, win_vars,
                 closed, staged, dropped, invoked, outcome,
                 gen_pc, since_last, rounds, sent, elapsed,
                 cfg_vars, store_vars, reg_vars, main_vars, sel_vars>>

\* _controller: a ticket is received, requests.get returns an item and the
\* chosen pool's _request raises its capacity error, which nothing catches:
\* the controller process ends, neither counter += 1 nor task_done() is run
CtrlCapacityError(c) ==
  /\ pc[c] = "ticket"
  /\ tickets[ticket_recv[c]] > 0
  /\ requests # <<>>
  /\ ~PoolAccepts(ChosenPool(c))
  /\ handed' = [handed EXCEPT ![Head(requests)] =
                   Append(@, <<c, ChosenPool(c), elapsed>>)]
  /\ dropped' = dropped \cup {Head(requests)}
  /\ requests' = AfterGet(requests)
  /\ tickets' = [tickets EXCEPT ![ticket_recv[c]] = AfterRecv(@)]
  /\ taken' = [taken EXCEPT ![c] = @ + 1]
  /\ pc' = [pc EXCEPT ![c] = "crashed"]
  /\ last_call' = NoCall
  /\ last_access' = NoAccess
  /\ UNCHANGED <<controllers, ticket_recv, counter, ready, result, cb_idx,
                 unfinished, closed, staged, batches, invoked, outcome,
                 gen_pc, since_last, rounds, sent, elapsed,
                 cfg_vars, store_vars, reg_vars, main_vars, pool_vars,
                 rps_vars, sel_vars>>

\* _controller: the next connection of the for loop is read
CtrlRecv(c) ==
  /\ pc[c] = "recv"
  /\ Receive(c, ready[c], counter[c])
  /\ last_call' = NoCall
  /\ last_access' = NoAccess
  /\ UNCHANGED <<controllers, ticket_recv, remaining, rps_pc, win_vars,
                 handed, dropped, invoked, outcome, cfg_vars, store_vars,
                 reg_vars, queue_vars, main_vars, gen_vars, sel_vars>>

\* _controller: store_lock.acquire(); context['store'] = store
CtrlAcquire(c) ==
  /\ pc[c] = "acquire"
  /\ CanAcquire(store_lock)
  /\ store_lock' = [store_lock EXCEPT !.holder = c]
  /\ pc' = [pc EXCEPT ![c] = "callbacks"]
  /\ last_call' = NoCall
  /\ last_access' = NoAccess
  /\ UNCHANGED <<controllers, ticket_recv, counter, ready, result, cb_idx,
                 store, cfg_vars, reg_vars, queue_vars, main_vars,
                 pool_vars, gen_vars, rps_vars, obs_vars, sel_vars>>

\* a faulty dispatch, which takes the callbacks last registered first
ReversedBatch(c) ==
  LET l == callbacks[EventOf(result[c].type)]
  IN [k \in 1..Len(l) |-> l[Len(l) + 1 - k]]

\* the callbacks the result is dispatched to
Batch(c) == callbacks[EventOf(result[c].type)]

\* _controller: callback(result, context) for the next callback of the batch;
\* a callback given the store writes its item to it through context['store']
CtrlCallback(c) ==
  /\ pc[c] = "callbacks"
  /\ cb_idx[c] <= Len(Batch(c))
  /\ invoked' = [invoked EXCEPT ![result[c].item] =
                   Append(@, [event |-> EventOf(result[c].type),
                              callback |-> Batch(c)[cb_idx[c]]])]
  /\ cb_idx' = [cb_idx EXCEPT ![c] = @ + 1]
  /\ IF use_store
     THEN /\ store' = [store EXCEPT !.val = 1]
          /\ last_access' = [party |-> c, op |-> "set",
                             held |-> store_lock.holder = c]
     ELSE /\ last_access' = NoAccess
          /\ UNCHANGED store
  /\ last_call' = NoCall
  /\ UNCHANGED <<controllers, ticket_recv, pc, counter, ready, result,
                 store_lock, handed, dropped, batches, outcome,
                 cfg_vars, reg_vars, queue_vars, main_vars,
                 pool_vars, gen_vars, rps_vars, sel_vars>>

\* _controller: the batch is over: store_lock.release(), then the next ready
\* connection or the next iteration of the loop
CtrlRelease(c) ==
  /\ pc[c] = "callbacks"
  /\ cb_idx[c] > Len(Batch(c))
  /\ store_lock' = IF use_store THEN [store_lock EXCEPT !.holder = Free]
                   ELSE store_lock
  /\ pc' = [pc EXCEPT ![c] = IF ready[c] # <<>> THEN "recv" ELSE "loop"]
  /\ last_call' = NoCall
  /\ last_access' = NoAccess
  /\ UNCHANGED <<controllers, ticket_recv, counter, ready, result, cb_idx,
                 store, cfg_vars, reg_vars, queue_vars, main_vars,
                 pool_vars, gen_vars, rps_vars, obs_vars, sel_vars>>

(* ------------------------- the ticket generator ----------------------- *)
\* a faulty test, which finds a broadcast due on every pass
AlwaysDue(since) == TRUE

\* _create_tickets: time_ - last_tickets > 1 / rate
Due(since) == since > Period

\* _create_tickets: time_ = time(); time_ - last_tickets > 1 / rate holds, so
\* connection.send(None) for every connection, and last_tickets = time_
GenBroadcastUpTo(cap) ==
  /\ gen_pc = "run"
  /\ Due(since_last)
  /\ rounds < cap
  /\ rounds' = rounds + 1
  /\ since_last' = 0
  /\ tickets' = [k \in DOMAIN tickets |-> tickets[k] + 1]
  /\ sent' = [k \in DOMAIN sent |-> sent[k] + 1]
  /\ last_call' = NoCall
  /\ last_access' = NoAccess
  /\ UNCHANGED <<gen_pc, taken, elapsed, cfg_vars, store_vars, reg_vars,
                 queue_vars, main_vars, ctrl_vars, pool_vars, rps_vars,
                 obs_vars, sel_vars>>

\* the generator as the dispatcher's run is followed
GenBroadcast == GenBroadcastUpTo(MaxRounds)

\* one tick passes: past Period, time() - last_tickets is kept at Period + 1,
\* which the generator cannot tell from more
Pass == since_last' = IF since_last <= Period THEN since_last + 1 ELSE since_last

\* time passes while the generator runs and is followed
Tick ==
  /\ gen_pc = "run"
  /\ rounds < MaxRounds
  /\ since_last <= Period
  /\ Pass
  /\ last_call' = NoCall
  /\ last_access' = NoAccess
  /\ UNCHANGED <<gen_pc, rounds, tickets, sent, taken, elapsed, cfg_vars,
                 store_vars, reg_vars, queue_vars, main_vars, ctrl_vars, pool_vars,
                 rps_vars, obs_vars, sel_vars>>

(* --------------------------- the rps counter -------------------------- *)
\* the ticks of one second: time() is in seconds
Second == 10

\* _count_rps: list1[0] < time_-1, the times that leave list1
RecentLimit(time_) == time_ - Second

\* _count_rps: list9[0] < time_-1, the times that leave list9
AgingLimit(time_) == time_ - Second

\* while len(l) > 0 and l[0] < limit: l.pop(0) -- the times popped
RECURSIVE Popped(_, _)
Popped(l, limit) ==
  IF l # <<>> /\ Head(l) < limit
  THEN <<Head(l)>> \o Popped(Tail(l), limit)
  ELSE <<>>

\* while len(l) > 0 and l[0] < limit: l.pop(0) -- the list left
RECURSIVE Kept(_, _)
Kept(l, limit) ==
  IF l # <<>> /\ Head(l) < limit THEN Kept(Tail(l), limit) ELSE l

\* _count_rps: rps_recv.recv() returns; time_ = time(), count += 1, the two
\* lists are moved and the three values are published
RpsRecv ==
  /\ rps_pc = "run"
  /\ rps_pending > 0
  /\ rps_pending' = rps_pending - 1
  /\ LET time_ == now
         appended == Append(list1, time_)
         aged == list9 \o Popped(appended, RecentLimit(time_))
     IN /\ count' = count + 1
        /\ list1' = Kept(appended, RecentLimit(time_))
        /\ list9' = Kept(aged, AgingLimit(time_))
        /\ rps' = [count |-> count + 1, over |-> time_]
        /\ rps1' = Len(list1')
        /\ rps10' = Len(list1') + Len(list9')
        /\ stamps' = Append(stamps, time_)
  /\ last_call' = NoCall
  /\ last_access' = NoAccess
  /\ UNCHANGED <<rps_pc, now, cfg_vars, store_vars, reg_vars, queue_vars,
                 main_vars, ctrl_vars, pool_vars, gen_vars, obs_vars, sel_vars>>

(* --------------------------- specification ---------------------------- *)
Next ==
  \/ \E e \in EventKinds : On(e)
  \/ Request
  \/ SetItemUnsupported
  \/ SetItem
  \/ GetItemUnsupported
  \/ GetItem
  \/ RunNoListeners
  \/ RunStart
  \/ RunJoinQueue
  \/ RunJoinControllers
  \/ \E p \in Pools : PoolComplete(p)
  \/ \E c \in Ctrls : CtrlLoop(c)
  \/ \E c \in Ctrls : CtrlNoTicket(c)
  \/ \E c \in Ctrls : CtrlEmpty(c)
  \/ \E c \in Ctrls : CtrlSubmit(c)
  \/ \E c \in Ctrls : CtrlCapacityError(c)
  \/ \E c \in Ctrls : CtrlRecv(c)
  \/ \E c \in Ctrls : CtrlAcquire(c)
  \/ \E c \in Ctrls : CtrlCallback(c)
  \/ \E c \in Ctrls : CtrlRelease(c)
  \/ GenBroadcast
  \/ Tick
  \/ RpsRecv

Spec == Init /\ [][Next]_vars

(* ------------------- the generator against the clock ------------------ *)
\* time passes and is counted, up to MaxTime ticks after the generator started
TickClock ==
  /\ gen_pc = "run"
  /\ elapsed < MaxTime
  /\ Pass
  /\ elapsed' = elapsed + 1
  /\ last_call' = NoCall
  /\ last_access' = NoAccess
  /\ UNCHANGED <<gen_pc, rounds, tickets, sent, taken, cfg_vars, store_vars,
                 reg_vars, queue_vars, main_vars, ctrl_vars, pool_vars,
                 rps_vars, obs_vars, sel_vars>>

\* the dispatcher up to the start of the workers, then the generator alone
\* (the controllers not scheduled), for as long as the clock is counted
TicketNext ==
  \/ \E e \in EventKinds : On(e)
  \/ Request
  \/ RunStart
  \/ GenBroadcastUpTo(MaxTime + 1)
  \/ TickClock

TicketSpec == Init /\ [][TicketNext]_vars

(* ------------------------ pool selection alone ------------------------ *)
\* the outstanding-task counts a controller may find in one to three pools
SelInit ==
  /\ Constructed
  /\ \E n \in {1, 2, 3} : counts \in [1..n -> 0..MaxCount]
  /\ chosen = 0

\* the controller's choice among pools 1..n with these counts
Select ==
  /\ chosen = 0
  /\ chosen' = LeastBusy(Indices(counts), counts)
  /\ UNCHANGED <<counts, cfg_vars, store_vars, reg_vars, queue_vars, main_vars,
                 io_vars, ctrl_vars, pool_vars, gen_vars, rps_vars, obs_vars>>

SelSpec == SelInit /\ [][Select]_vars

(* ------------------------ one pool against the clock ------------------ *)
\* one ungrouped pool, with the store and the rps counter
TimedSetup == [pools |-> <<None>>, store |-> TRUE, rps |-> TRUE]

TimedInit ==
  /\ Configured(TimedSetup)
  /\ Fresh
  /\ counts = <<>>
  /\ chosen = 0

\* the generator for as long as the clock is counted
TimedBroadcast == GenBroadcastUpTo(MaxTime + 1)

\* time passes and goes on passing; it is counted up to MaxTime ticks after
\* the generator started, where the count stays
TickOn ==
  /\ gen_pc = "run"
  /\ Pass
  /\ elapsed' = IF elapsed < MaxTime THEN elapsed + 1 ELSE elapsed
  /\ last_call' = NoCall
  /\ last_access' = NoAccess
  /\ UNCHANGED <<gen_pc, rounds, tickets, sent, taken, cfg_vars, store_vars,
                 reg_vars, queue_vars, main_vars, ctrl_vars, pool_vars,
                 rps_vars, obs_vars, sel_vars>>

\* a whole run() with its workers, the time counted; with one pool the for
\* loop over the ready connections never has a second connection to read
TimedNext ==
  \/ \E e \in EventKinds : On(e)
  \/ Request
  \/ RunStart
  \/ RunJoinQueue
  \/ RunJoinControllers
  \/ \E p \in Pools : PoolComplete(p)
  \/ \E c \in Ctrls : CtrlLoop(c)
  \/ \E c \in Ctrls : CtrlNoTicket(c)
  \/ \E c \in Ctrls : CtrlEmpty(c)
  \/ \E c \in Ctrls : CtrlSubmit(c)
  \/ \E c \in Ctrls : CtrlCapacityError(c)
  \/ \E c \in Ctrls : CtrlAcquire(c)
  \/ \E c \in Ctrls : CtrlCallback(c)
  \/ \E c \in Ctrls : CtrlRelease(c)
  \/ TimedBroadcast
  \/ TickOn
  \/ RpsRecv

TimedSpec == TimedInit /\ [][TimedNext]_vars

(* ------------------------ the rps counter alone ----------------------- *)
\* one tick of the rps counter's clock passes
RpsTick ==
  /\ rps_pc = "run"
  /\ now < MaxNow
  /\ now' = now + 1
  /\ UNCHANGED <<rps_pc, rps_pending, count, list1, list9, rps, rps1, rps10,
                 stamps, cfg_vars, store_vars, reg_vars, queue_vars, main_vars,
                 io_vars, ctrl_vars, pool_vars, gen_vars, obs_vars, sel_vars>>

\* _controller: rps_send.send(None), taken alone
RpsSend ==
  /\ rps_pc = "run"
  /\ rps_pending' = rps_pending + 1
  /\ UNCHANGED <<rps_pc, win_vars, cfg_vars, store_vars, reg_vars, queue_vars,
                 main_vars, io_vars, ctrl_vars, pool_vars, gen_vars, obs_vars,
                 sel_vars>>

\* notifications sent so far
Notes == Len(stamps) + rps_pending

\* the rps counter started by run() and notified at any times, the controllers
\* not followed beyond their notifications
RpsNext ==
  \/ \E e \in EventKinds : On(e)
  \/ RunStart
  \/ Notes < MaxNotes /\ RpsSend
  \/ RpsRecv
  \/ RpsTick

RpsSpec == TimedInit /\ [][RpsNext]_vars

\* completions at 0.0, 0.5, 1.2, 9.9 and 10.5 seconds
Script == <<0, 5, 12, 99, 105>>

\* a notification is sent at each time of the script and counted at that time
ScriptSend ==
  /\ Notes < Len(Script)
  /\ Script[Notes + 1] = now
  /\ RpsSend

ScriptTick ==
  /\ \A k \in DOMAIN Script : Script[k] <= now => k <= Len(stamps)
  /\ RpsTick

ScriptNext ==
  \/ \E e \in EventKinds : On(e)
  \/ RunStart
  \/ ScriptSend
  \/ RpsRecv
  \/ ScriptTick

ScriptSpec == TimedInit /\ [][ScriptNext]_vars

(* ------------------------------ fairness ------------------------------ *)
\* every pool and every controller of the setups followed
AllPools == UNION { DOMAIN s.pools : s \in Setups }
AllCtrls == AllPools

\* any step of controller c
CtrlStep(c) ==
  \/ CtrlLoop(c) \/ CtrlNoTicket(c) \/ CtrlEmpty(c) \/ CtrlSubmit(c)
  \/ CtrlCapacityError(c) \/ CtrlRecv(c) \/ CtrlAcquire(c)
  \/ CtrlCallback(c) \/ CtrlRelease(c)

\* every process that can take a step is scheduled in the end, time passes,
\* and a pool completes every item it holds; the caller of the dispatcher is
\* not obliged to call anything, but run() goes on once it is unblocked
Fairness ==
  /\ WF_vars(RunJoinQueue)
  /\ WF_vars(RunJoinControllers)
  /\ WF_vars(GenBroadcast)
  /\ WF_vars(Tick)
  /\ WF_vars(RpsRecv)
  /\ \A c \in AllCtrls : WF_vars(c \in Ctrls /\ CtrlStep(c))
  /\ \A p \in AllPools : WF_vars(p \in Pools /\ PoolComplete(p))

FairSpec == Spec /\ Fairness

\* the same scheduling with the time counted
TimedFairness ==
  /\ WF_vars(RunJoinQueue)
  /\ WF_vars(RunJoinControllers)
  /\ WF_vars(TimedBroadcast)
  /\ WF_vars(TickOn)
  /\ WF_vars(RpsRecv)
  /\ \A c \in AllCtrls : WF_vars(c \in Ctrls /\ CtrlStep(c))
  /\ \A p \in AllPools : WF_vars(p \in Pools /\ PoolComplete(p))

TimedFairSpec == TimedSpec /\ TimedFairness

(* ------------------------------ claims -------------------------------- *)
Range(seq) == { seq[k] : k \in DOMAIN seq }
Staged == 1..staged
\* item i was taken from the pending queue
Dequeued(i) == i \in Staged /\ closed /\ i \notin Range(requests)
\* controller c is inside a callback batch
InBatch(c) == pc[c] = "callbacks"
\* the one callback batch of item i was begun and is over
BatchOver(i) ==
  /\ batches[i] = 1
  /\ \A c \in Ctrls :
       result[c].item = i => pc[c] \notin {"acquire", "callbacks"}
\* a callback is registered for each kind of outcome
BothKinds == callbacks["RESPONSE"] # <<>> /\ callbacks["ERROR"] # <<>>
\* the tickets sent on all the channels together
RECURSIVE SumSeq(_)
SumSeq(seq) == IF seq = <<>> THEN 0 ELSE Head(seq) + SumSeq(Tail(seq))
\* the callbacks registered for the ERROR kind, each invoked once, in order
ErrorBatch ==
  [k \in DOMAIN callbacks["ERROR"] |->
     [event |-> "ERROR", callback |-> callbacks["ERROR"][k]]]

\* C1: no staged item ever gets two callback batches or callbacks of both
\* kinds, and once run() has started with a callback registered for each kind,
\* every staged item eventually gets its one callback batch, which ends.
C1_ExactlyOneBatch ==
  /\ [](\A i \in Items :
          /\ batches[i] <= 1
          /\ \A k \in DOMAIN invoked[i] : invoked[i][k].event = invoked[i][1].event)
  /\ \A i \in Items :
       (main_pc = "join_queue" /\ BothKinds /\ i \in Staged) ~> BatchOver(i)

\* C2: every staged item is handed to at most one pool of at most one
\* controller, an item is handed to a pool exactly when it has left the
\* queue, and at most that one pool holds it.
C2_NoDoubleDeliveryNoDrop ==
  \A i \in Items :
    /\ Len(handed[i]) <= 1
    /\ Dequeued(i) <=> Len(handed[i]) = 1
    /\ \A p \in Pools :
         i \in remaining[p] =>
           /\ Len(handed[i]) = 1
           /\ handed[i][1][2] = p
           /\ \E k \in DOMAIN controllers[handed[i][1][1]] :
                controllers[handed[i][1][1]][k] = p

\* C2 witness: two controllers have each taken an item from the shared queue
\* and handed it to their own pool.
C2_Witness ==
  /\ Len(handed[1]) = 1 /\ Len(handed[2]) = 1
  /\ handed[1][1][1] # handed[2][1][1]
  /\ requests = <<>>

\* C3 as stated: the tickets sent on all channels together, up to elapsed time
\* t, are at most 1 + rate*t (with rate = 1/Period: (total - 1) * Period <= t).
C3_AggregateWithinRate ==
  (SumSeq(sent) - 1) * Period <= elapsed

\* C3 as the generator behaves: on every channel the tickets sent up to
\* elapsed time t are at most 1 + rate*t, so that the n channels together
\* carry at most n * (1 + rate*t); every channel carries the same number.
C3_PerChannelWithinRate ==
  /\ \A k \in DOMAIN sent : (sent[k] - 1) * Period <= elapsed
  /\ \A k \in DOMAIN sent : sent[k] = rounds
  /\ (SumSeq(sent) - Len(sent)) * Period <= Len(sent) * elapsed

\* C3 witness: two channels, each of which was sent its second ticket.
C3_Witness ==
  /\ Len(sent) = 2
  /\ sent[1] = 2 /\ sent[2] = 2
  /\ elapsed = Period + 1

\* C4: the pool chosen has the smallest outstanding-task count of the pools,
\* and every pool declared before it has a strictly greater count; the counts
\* 3, 1, 4 select the second pool.
C4_LeastBusyFirstDeclared ==
  chosen # 0 =>
    /\ chosen \in DOMAIN counts
    /\ \A q \in DOMAIN counts : counts[chosen] <= counts[q]
    /\ \A q \in DOMAIN counts : q < chosen => counts[q] > counts[chosen]
    /\ counts = <<3, 1, 4>> => chosen = 2

\* C4 witness: the choice was made among pools with the counts 3, 1, 4.
C4_Witness == counts = <<3, 1, 4>> /\ chosen = 2

\* C5: with the store enabled, a controller holds the store lock exactly while
\* it is inside a callback batch (one acquisition, released when the batch
\* ends), no two controllers are inside a batch at once, and a callback's
\* store access is made by the controller that holds the lock.
C5_OneLockPerBatch ==
  use_store =>
    /\ \A c \in Ctrls : (store_lock.holder = c) <=> InBatch(c)
    /\ \A c1, c2 \in Ctrls : InBatch(c1) /\ InBatch(c2) => c1 = c2
    /\ last_access.party \in Ctrls =>
         /\ last_access.held
         /\ InBatch(last_access.party)

\* C5 witness: a controller has run the first of two callbacks of its batch
\* while another controller waits for the lock.
C5_Witness ==
  /\ use_store
  /\ \E c1, c2 \in Ctrls :
       /\ c1 # c2
       /\ InBatch(c1) /\ cb_idx[c1] = 2 /\ Len(Batch(c1)) = 2
       /\ last_access.party = c1
       /\ pc[c2] = "acquire"

\* C6: every read or write of the store is made by a party that holds the
\* store lock.
C6_AllAccessLockGuarded ==
  last_access.op # None => last_access.held

\* C7: with the store disabled there is no store and no lock, no step touches
\* either, every get and set ends with StoreNotSupportedError, and no
\* controller acquires the lock to put the store in a context.
C7_StoreDisabled ==
  ~use_store =>
    /\ ~store.alloc /\ store.val = 0
    /\ ~store_lock.alloc /\ store_lock.holder = Free
    /\ last_access = NoAccess
    /\ last_call.op \in {"get", "set"} =>
         last_call.result = "StoreNotSupportedError"
    /\ \A c \in Ctrls : pc[c] # "acquire"

\* C7 witness: after a run that delivered an item without a store, a get fails
\* with StoreNotSupportedError.
C7_Witness ==
  /\ ~use_store
  /\ main_pc = "done"
  /\ batches[1] = 1
  /\ last_call = [op |-> "get", result |-> "StoreNotSupportedError"]

\* C8: a run() called with no callback registered ends with NoListenersError
\* and changes nothing: no controller, generator or rps counter is started,
\* the queue keeps every staged item and stays open; with a callback
\* registered run() never ends with NoListenersError.
C8_RunWithoutListeners ==
  /\ [][(last_call'.op = "run" /\ ~callback_registered) =>
          /\ last_call'.result = "NoListenersError"
          /\ UNCHANGED <<cfg_vars, store_vars, reg_vars, queue_vars, main_vars,
                         ctrl_vars, pool_vars, gen_vars, rps_vars, obs_vars>>
          /\ ~closed'
          /\ requests' = [k \in 1..staged |-> k]
          /\ controllers' = <<>>
          /\ gen_pc' = "idle"
          /\ rps_pc' = "idle"]_vars
  /\ [](callback_registered => last_call.result # "NoListenersError")

\* C8 witness: run() has just failed with NoListenersError with items staged.
C8_Witness ==
  /\ last_call = [op |-> "run", result |-> "NoListenersError"]
  /\ staged > 0
  /\ Len(requests) = staged
  /\ ~closed
  /\ gen_pc = "idle"

\* every staged item was dequeued, its outcome reaped and its callbacks run,
\* every controller has exited and the generator is stopped
Drained ==
  /\ requests = <<>>
  /\ unfinished = 0
  /\ \A i \in Staged : Dequeued(i) /\ BatchOver(i)
  /\ \A p \in Pools : remaining[p] = {} /\ feed[p] = <<>>
  /\ \A c \in Ctrls : pc[c] = "exited"
  /\ gen_pc = "terminated"

\* C9: when run() has returned the drain barrier was reached, and a run() that
\* has started its workers eventually returns.
C9_RunReturnsAtDrainBarrier ==
  /\ [](main_pc = "done" => Drained)
  /\ (main_pc = "join_queue") ~> (main_pc = "done")

\* C10: the callbacks invoked for an item are those of its outcome's kind
\* only (ERROR for a failure, RESPONSE for a success); once the batch of a
\* failed item is over every registered ERROR callback was invoked exactly
\* once, in registration order; no item is handed out or delivered twice, no
\* dequeued item comes back to the queue; a batch never ends its controller;
\* and when run() has returned every staged item was delivered.
C10_FailureRouting ==
  /\ [](\A i \in Items :
          /\ \A k \in DOMAIN invoked[i] :
               /\ outcome[i] \in ResultTypes
               /\ outcome[i] = "ErrorResult" => invoked[i][k].event = "ERROR"
               /\ outcome[i] = "Response" => invoked[i][k].event = "RESPONSE"
          /\ (outcome[i] = "ErrorResult" /\ BatchOver(i)) =>
               invoked[i] = ErrorBatch
          /\ batches[i] <= 1
          /\ Len(handed[i]) <= 1
          /\ main_pc = "done" => (i \in Staged => BatchOver(i)))
  /\ [][/\ \A i \in Items : Dequeued(i) => Dequeued(i)'
        /\ \A c \in Ctrls :
             pc[c] \in {"acquire", "callbacks"} =>
               pc'[c] \in {"acquire", "callbacks", "recv", "loop"}]_vars

\* C10 witness: run() has returned after a failed item went to the one ERROR
\* callback and a successful item to the one RESPONSE callback.
C10_Witness ==
  /\ main_pc = "done"
  /\ outcome[1] = "ErrorResult"
  /\ invoked[1] = <<[event |-> "ERROR", callback |-> 1]>>
  /\ outcome[2] = "Response"
  /\ invoked[2] = <<[event |-> "RESPONSE", callback |-> 1]>>

\* C11: _request is never called on a pool whose outstanding-task count has
\* reached its connection budget: no submission fails with the capacity error
\* after its item was taken from the queue, and no controller is ended by it.
C11_NeverOverBudget ==
  /\ dropped = {}
  /\ \A c \in Ctrls : pc[c] # "crashed"

\* the callbacks registered for the kind of item i's outcome
BatchOf(i) ==
  IF outcome[i] = "Response" THEN callbacks["RESPONSE"] ELSE callbacks["ERROR"]

\* C12: with one solo pool, a run() that has started its workers eventually
\* returns; when it has returned every one of the N staged items had exactly
\* one callback batch, in which each callback of its outcome's kind was
\* invoked once (N invocations with one callback per kind), and the time
\* elapsed (counted up to MaxTime) is at least (N - 1) / rate.
C12_EndToEnd ==
  /\ [](main_pc = "done" =>
          /\ \A i \in Staged : batches[i] = 1 /\ Len(invoked[i]) = Len(BatchOf(i))
          /\ \A i \in Items \ Staged : batches[i] = 0 /\ invoked[i] = <<>>
          /\ staged > 0 => elapsed >= (staged - 1) * Period)
  /\ (main_pc = "join_queue") ~> (main_pc = "done")

\* C12, the part that holds: what is true whenever run() has returned.
C12_WhenReturned ==
  main_pc = "done" =>
    /\ \A i \in Staged : batches[i] = 1 /\ Len(invoked[i]) = Len(BatchOf(i))
    /\ \A i \in Items \ Staged : batches[i] = 0 /\ invoked[i] = <<>>
    /\ staged > 0 => elapsed >= (staged - 1) * Period

\* C12 witness: run() has returned after two items were delivered.
C12_Witness ==
  /\ main_pc = "done"
  /\ staged = 2
  /\ batches[1] = 1 /\ batches[2] = 1
  /\ elapsed >= Period

\* how many of the times taken so far are at or after from
Since(from) == Cardinality({k \in DOMAIN stamps : stamps[k] >= from})
\* the time of the last notification counted
LastTime == stamps[Len(stamps)]

\* C13: after every notification counted at time t, rps10 is the number of
\* notifications counted in the ten seconds up to t and rps1 the number in the
\* one second up to t; list9 holds every time between one and ten seconds old.
C13_TrailingWindows ==
  stamps # <<>> =>
    /\ rps1 = Since(LastTime - Second)
    /\ rps10 = Since(LastTime - 10 * Second)
    /\ Len(list9) = Since(LastTime - 10 * Second) - Since(LastTime - Second)

\* C13, the part that holds: rps1 is the number of notifications counted in
\* the one second up to the last one.
C13_OneSecondWindow ==
  stamps # <<>> => rps1 = Since(LastTime - Second)

\* C14: with notifications counted at 0.0, 0.5, 1.2, 9.9 and 10.5 seconds and
\* the values read at 10.6 seconds, rps1 is 1 (the 10.5 s event) and rps10 is
\* 3 (the 1.2 s, 9.9 s and 10.5 s events).
C14_ScriptedWindows ==
  (stamps = Script /\ now = Script[Len(Script)] + 1) =>
    /\ rps1 = 1
    /\ rps10 = 3

\* the controller that took item i from the queue
AdmittedBy(i) == handed[i][1][1]
\* every callback of item i's batch was invoked
AllInvoked(i) == Len(invoked[i]) = Len(BatchOf(i))

\* C15: the callbacks invoked for an item are those registered for its
\* outcome's kind, first registered first; a batch that is over has invoked
\* all of them; a controller has at most one unfinished batch, the one of the
\* outcome it is dispatching; and it takes no item from the queue and reaps
\* no outcome while a batch of its own is unfinished.
C15_RegistrationOrder ==
  /\ [](\A i \in Items :
          /\ \A k \in DOMAIN invoked[i] :
               /\ k <= Len(BatchOf(i))
               /\ invoked[i][k].callback = BatchOf(i)[k]
               /\ invoked[i][k].callback = k
          /\ BatchOver(i) => AllInvoked(i)
          /\ (batches[i] = 1 /\ ~AllInvoked(i)) =>
               /\ result[AdmittedBy(i)].item = i
               /\ pc[AdmittedBy(i)] \in {"acquire", "callbacks"}
               /\ Len(invoked[i]) = cb_idx[AdmittedBy(i)] - 1)
  /\ [][\A i \in Items :
          (handed'[i] # handed[i] \/ batches'[i] # batches[i]) =>
            \A j \in Items :
              (batches[j] = 1 /\ AdmittedBy(j) = handed'[i][1][1]) =>
                AllInvoked(j)]_vars

\* C15 witness: a controller that has invoked both callbacks of one batch, in
\* the order of their registration, has begun the batch of its next outcome.
C15_Witness ==
  /\ Len(handed[1]) = 1 /\ Len(handed[2]) = 1
  /\ AdmittedBy(1) = AdmittedBy(2)
  /\ Len(invoked[1]) = 2
  /\ invoked[1][1].callback = 1 /\ invoked[1][2].callback = 2
  /\ batches[2] = 1
  /\ pc[AdmittedBy(2)] = "callbacks"

\* the items controller c took from the queue to call _request
Admitted(c) ==
  Cardinality({i \in Items : handed[i] # <<>> /\ AdmittedBy(i) = c})

\* C16: a controller has admitted at most as many items as it has received
\* tickets, and has received at most as many tickets as the generator has sent
\* on its connection: the tickets sent are those received and those waiting.
C16_OneAdmissionPerTicket ==
  \A c \in Ctrls :
    /\ Admitted(c) <= taken[c]
    /\ taken[c] <= sent[ticket_recv[c]]
    /\ tickets[ticket_recv[c]] >= 0
    /\ taken[c] + tickets[ticket_recv[c]] = sent[ticket_recv[c]]

\* C16 witness: a controller has received both tickets sent to it, one of
\* which admitted an item and one of which found the queue empty.
C16_Witness ==
  \E c \in Ctrls :
    /\ sent[ticket_recv[c]] = 2
    /\ taken[c] = 2
    /\ Admitted(c) = 1

\* C17: a controller at the top of its loop or at its ticket test can always
\* take a step, whatever the tickets and the queue hold; and a step in which
\* it receives a ticket while the queue is empty takes that ticket away and
\* nothing else: no pool gets an item, its counter and the queue's accounting
\* stay, and it is back at the top of its loop.
C17_WastedTicket ==
  /\ [](\A c \in Ctrls :
          pc[c] \in {"loop", "ticket"} =>
            ENABLED (\/ CtrlLoop(c) \/ CtrlNoTicket(c) \/ CtrlEmpty(c)
                     \/ CtrlSubmit(c) \/ CtrlCapacityError(c)))
  /\ [][\A c \in Ctrls :
          (taken'[c] # taken[c] /\ requests = <<>>) =>
            /\ taken'[c] = taken[c] + 1
            /\ tickets'[ticket_recv[c]] = tickets[ticket_recv[c]] - 1
            /\ UNCHANGED <<remaining, feed, handed, dropped>>
            /\ counter'[c] = counter[c]
            /\ UNCHANGED <<requests, unfinished, closed>>
            /\ pc'[c] = "loop"]_vars

\* C17 witness: a controller that has wasted a ticket on the empty queue is at
\* the top of its loop with an outcome still to reap.
C17_Witness ==
  \E c \in Ctrls :
    /\ taken[c] > Admitted(c)
    /\ requests = <<>>
    /\ pc[c] = "loop"
    /\ counter[c] > 0

(* ---------------------- the partition followed alone ------------------- *)
\* the id_ a pool may carry
PoolIdValues == {None, "a", "b"}

\* every list of one to MaxPools pools, with and without store and rps
PartSetups ==
  { [pools |-> ids, store |-> s, rps |-> r] :
      ids \in UNION { [1..n -> PoolIdValues] : n \in 1..MaxPools },
      s \in BOOLEAN, r \in BOOLEAN }

PartInit ==
  /\ \E s \in PartSetups : Configured(s)
  /\ Fresh
  /\ counts = <<>>
  /\ chosen = 0

PartNext ==
  \/ \E e \in EventKinds : On(e)
  \/ Request
  \/ RunStart

PartSpec == PartInit /\ [][PartNext]_vars

\* the controllers whose pools argument holds pool p
Owners(p) ==
  {c \in Ctrls : \E k \in 1..Len(controllers[c]) : controllers[c][k] = p}

\* C18: once run() has started the controllers, every pool is in the pools
\* argument of exactly one controller and only once; a pool without an id is
\* alone with its controller; pools share a controller exactly when they carry
\* the same id; no two controllers hold the same ticket connection; and there
\* are as many controllers, and as many ticket connections, as pools without
\* an id plus distinct ids.
C18_Partition ==
  main_pc # "config" =>
    /\ \A p \in Pools : Cardinality(Owners(p)) = 1
    /\ \A c \in Ctrls :
         /\ Len(controllers[c]) > 0
         /\ \A k, l \in 1..Len(controllers[c]) :
              controllers[c][k] = controllers[c][l] => k = l
         /\ \A k \in 1..Len(controllers[c]) : controllers[c][k] \in Pools
    /\ \A p \in Pools :
         pool_ids[p] = None => \A c \in Owners(p) : controllers[c] = <<p>>
    /\ \A p, q \in Pools :
         (p # q /\ pool_ids[p] # None) =>
           (pool_ids[p] = pool_ids[q] <=> Owners(p) = Owners(q))
    /\ \A c \in Ctrls : ticket_recv[c] \in 1..Len(tickets)
    /\ \A c, d \in Ctrls : ticket_recv[c] = ticket_recv[d] => c = d
    /\ Len(controllers) = Len(tickets)
    /\ Len(controllers) =
         Cardinality({p \in Pools : pool_ids[p] = None}) +
         Cardinality({pool_ids[p] : p \in Pools} \ {None})

\* C18 witness: run() has started two controllers for three pools, one
\* without an id and a group of two
C18_Witness ==
  /\ main_pc # "config"
  /\ Len(pool_ids) = 3
  /\ \E p, q \in Pools : p # q /\ pool_ids[p] # None /\ pool_ids[p] = pool_ids[q]
  /\ \E p \in Pools : pool_ids[p] = None
  /\ Len(controllers) = 2

\* the items controller c has submitted to its pools and not yet reaped
Unreaped(c) ==
  {i \in Items : /\ handed[i] # <<>>
                 /\ AdmittedBy(i) = c
                 /\ i \notin dropped
                 /\ batches[i] = 0}

\* the counter of every controller counts its submitted and unreaped items
CounterCounts ==
  \A c \in Ctrls : counter[c] = Cardinality(Unreaped(c)) /\ counter[c] >= 0

\* C19: the counter of a controller is the number of items it has submitted
\* and not yet reaped, never negative; and a controller whose process has
\* ended, by leaving its loop or by an error raised out of it, has counter 0
\* and an empty queue, with none of its items unreaped.
C19_CounterAndExit ==
  /\ CounterCounts
  /\ \A c \in Ctrls :
       pc[c] \in {"exited", "crashed"} =>
         /\ counter[c] = 0
         /\ requests = <<>>
         /\ Unreaped(c) = {}

\* a controller has left its loop by the break, after reaping an item
C19_Witness ==
  \E c \in Ctrls : pc[c] = "exited" /\ \E i \in Items : handed[i] # <<>> /\ AdmittedBy(i) = c /\ batches[i] = 1

\* the tick at which item i was handed to a pool
AdmittedAt(i) == handed[i][1][3]

\* C20: two items that the same controller has submitted to its pools, at
\* ticks the elapsed-time observer still tells apart, were submitted at least
\* 1/rate apart.
C20_PacedAdmissions ==
  \A i, j \in Items :
    (/\ i # j
     /\ handed[i] # <<>> /\ handed[j] # <<>>
     /\ AdmittedBy(i) = AdmittedBy(j)
     /\ i \notin dropped /\ j \notin dropped
     /\ AdmittedAt(i) < MaxTime /\ AdmittedAt(j) < MaxTime
     /\ AdmittedAt(i) <= AdmittedAt(j))
    => AdmittedAt(j) - AdmittedAt(i) >= Period

\* a controller has submitted two items one period apart or more
C20_Witness ==
  \E i, j \in Items :
    /\ i # j
    /\ handed[i] # <<>> /\ handed[j] # <<>>
    /\ AdmittedBy(i) = AdmittedBy(j)
    /\ i \notin dropped /\ j \notin dropped
    /\ AdmittedAt(j) < MaxTime
    /\ AdmittedAt(j) - AdmittedAt(i) >= Period

====
